---- MODULE Spec2Model ----
(***************************************************************************)
(* short-url-service: the three-tier lookup (getURL), the mapping writer   *)
(* (putURL), the batch handler (put) and the url_mapping table, as a state *)
(* machine.  Strings are sequences of one-character strings, so that trim, *)
(* the leading-slash strip, the '/' test, the LIKE prefix match and the    *)
(* column collation act on characters as the code does.                    *)
(***************************************************************************)
EXTENDS Integers, Sequences, FiniteSets, TLC

(* ------------------------------------------------------------------ *)
(* Strings                                                            *)
(* ------------------------------------------------------------------ *)

\* JavaScript undefined / SQL NULL: no character sequence equals it.
Null == <<"null">>

\* JavaScript truthiness of an optional string: undefined and "" are falsy.
Truthy(s) == s # Null /\ s # <<>>

IsSpace(c) == c = " "

Min(a, b) == IF a < b THEN a ELSE b

\* A faulty substring that starts at the second character.
Substring1(s, n) == SubSeq(s, 2, Min(n + 1, Len(s)))

\* String.prototype.substring(0, n)
Substring0(s, n) == SubSeq(s, 1, Min(n, Len(s)))

\* String.prototype.trim()
RECURSIVE TrimLeft(_)
TrimLeft(s) == IF s # <<>> /\ IsSpace(Head(s)) THEN TrimLeft(Tail(s)) ELSE s

RECURSIVE TrimRight(_)
TrimRight(s) ==
    IF s # <<>> /\ IsSpace(s[Len(s)]) THEN TrimRight(SubSeq(s, 1, Len(s) - 1)) ELSE s

Trim(s) == TrimRight(TrimLeft(s))

\* path.replace(/^\//, ''): one '/' removed, only at position 0.
StripLeadingSlash(s) == IF s # <<>> /\ Head(s) = "/" THEN Tail(s) ELSE s

\* mapping.path.replace(/^\//, '').trim()
NormalizePath(p) == IF Truthy(p) THEN Trim(StripLeadingSlash(p)) ELSE p

\* mapping.url.trim()
NormalizeUrl(u) == IF Truthy(u) THEN Trim(u) ELSE u

\* /\//.test(path)
HasSlash(p) == \E i \in 1..Len(p) : p[i] = "/"

(* ------------------------------------------------------------------ *)
(* Hashing and encoding                                               *)
(* ------------------------------------------------------------------ *)

\* A faulty urlSafe that leaves '/' as it is.
RECURSIVE urlSafeKeepsSlash(_)
urlSafeKeepsSlash(base64) ==
    IF base64 = <<>> THEN <<>>
    ELSE LET c == Head(base64)
             rest == urlSafeKeepsSlash(Tail(base64))
         IN  IF c = "+" THEN <<"-">> \o rest
             ELSE IF c = "=" THEN rest
             ELSE <<c>> \o rest

\* urlSafe: '+' -> '-', '/' -> '_', '=' removed.
RECURSIVE urlSafe(_)
urlSafe(base64) ==
    IF base64 = <<>> THEN <<>>
    ELSE LET c == Head(base64)
             rest == urlSafe(Tail(base64))
         IN  IF c = "+" THEN <<"-">> \o rest
             ELSE IF c = "/" THEN <<"_">> \o rest
             ELSE IF c = "=" THEN rest
             ELSE <<c>> \o rest

\* sha256(text).toString('base64'): the digest is a fixed function of the text.
\* The texts the model uses get digests of four characters and the '=' pad
\* (the real ones are 43 characters and the pad), chosen so that digests
\* share a prefix, differ only in letter case, or hold '+' and '/'.
sha256Base64(text) ==
    CASE text = <<"x">> -> <<"a", "b", "c", "d", "=">>
      [] text = <<"y">> -> <<"a", "b", "e", "f", "=">>
      [] text = <<"z">> -> <<"A", "B", "g", "h", "=">>
      [] text = <<"w">> -> <<"a", "/", "i", "j", "=">>
      [] text = <<"v">> -> <<"+", "k", "l", "m", "=">>
      [] text = <<"u">> -> <<"a", "b", "i", "j", "=">>
      [] OTHER -> <<"n", "o", "p", "q", "=">>

\* mapping.long_id = urlSafe(hash.toString('base64'))
LongId(url) == urlSafe(sha256Base64(url))

\* props.minShortIdLength
minShortIdLength == 2

(* ------------------------------------------------------------------ *)
(* The url_mapping table (utf8mb4_general_ci columns)                 *)
(* ------------------------------------------------------------------ *)

LowerLetters == <<"a", "b", "c", "d", "e", "f", "g", "h", "i", "j", "k", "l", "m",
                  "n", "o", "p", "q", "r", "s", "t", "u", "v", "w", "x", "y", "z">>
UpperLetters == <<"A", "B", "C", "D", "E", "F", "G", "H", "I", "J", "K", "L", "M",
                  "N", "O", "P", "Q", "R", "S", "T", "U", "V", "W", "X", "Y", "Z">>

\* The characters in the order of their general_ci weights (letters weigh as
\* their upper case).
CollationOrder == <<" ", "+", "-", "/", "0", "1", "2", "3", "4", "5", "6", "7", "8",
                    "9", "=">> \o UpperLetters \o <<"_">>

IndexOf(seq, c) == CHOOSE i \in 1..Len(seq) : seq[i] = c

Upper(c) ==
    IF \E i \in 1..Len(LowerLetters) : LowerLetters[i] = c
    THEN UpperLetters[IndexOf(LowerLetters, c)]
    ELSE c

Weight(c) == IndexOf(CollationOrder, Upper(c))

\* Equality of two column values under the collation.
CollEq(s, t) == Len(s) = Len(t) /\ \A i \in 1..Len(s) : Weight(s[i]) = Weight(t[i])

\* s sorts strictly before t under the collation.
RECURSIVE CollLess(_, _)
CollLess(s, t) ==
    IF t = <<>> THEN FALSE
    ELSE IF s = <<>> THEN TRUE
    ELSE IF Weight(Head(s)) # Weight(Head(t)) THEN Weight(Head(s)) < Weight(Head(t))
    ELSE CollLess(Tail(s), Tail(t))

\* short_id like concat(prefix, '%'): '_' in the pattern matches any one
\* character, every other character matches under the collation.
LikePrefix(s, prefix) ==
    /\ Len(s) >= Len(prefix)
    /\ \A i \in 1..Len(prefix) : prefix[i] = "_" \/ Weight(s[i]) = Weight(prefix[i])

NoRow == 0

\* select * from url_mapping where path = ?  (the first row, or null)
SelectByPath(table, path) ==
    IF \E i \in 1..Len(table) : CollEq(table[i].path, path)
    THEN CHOOSE i \in 1..Len(table) : CollEq(table[i].path, path)
    ELSE NoRow

\* The ids of the rows whose short_id matches the prefix.
LikeIds(table, prefix) ==
    {i \in 1..Len(table) : table[i].short_id # Null /\ LikePrefix(table[i].short_id, prefix)}

\* order by short_id: the ids of a set of rows, ascending by short_id.
RECURSIVE OrderByShortId(_, _)
OrderByShortId(table, ids) ==
    IF ids = {} THEN <<>>
    ELSE LET lo == CHOOSE i \in ids :
                     \A j \in ids \ {i} : ~CollLess(table[j].short_id, table[i].short_id)
         IN  <<table[lo]>> \o OrderByShortId(table, ids \ {lo})

\* select * from url_mapping where short_id like concat(?, '%') order by short_id
SelectLike(table, prefix) == OrderByShortId(table, LikeIds(table, prefix))

\* A faulty table without the index path_unq.
UniqueOkNoPathIndex(table, short_id, path) ==
    short_id # Null =>
        \A i \in 1..Len(table) :
            table[i].short_id # Null => ~CollEq(table[i].short_id, short_id)

\* The unique indexes path_unq and short_id_unq admit the new row.
UniqueOk(table, short_id, path) ==
    /\ \A i \in 1..Len(table) : ~CollEq(table[i].path, path)
    /\ short_id # Null =>
         \A i \in 1..Len(table) :
            table[i].short_id # Null => ~CollEq(table[i].short_id, short_id)

\* insert into url_mapping (short_id, path, url, origin_url, create_time,
\* last_update_time) values (?, ?, ?, ?, now(), now()); id is AUTO_INCREMENT.
\* The two timestamps decide nothing in the program and are left out of the
\* rows.
InsertRow(table, short_id, path, url) ==
    Append(table, [id |-> Len(table) + 1, short_id |-> short_id, path |-> path,
                   url |-> url, origin_url |-> url])

\* A faulty update without its where clause.
UpdateEveryRow(table, id, url) == [r \in 1..Len(table) |-> [table[r] EXCEPT !.url = url]]

\* A faulty update that also rewrites origin_url.
UpdateRowAndOrigin(table, id, url) ==
    [table EXCEPT ![id].url = url, ![id].origin_url = url]

\* update url_mapping set url = ?, last_update_time = now() where id = ?
UpdateRow(table, id, url) == [table EXCEPT ![id].url = url]

(* ------------------------------------------------------------------ *)
(* The local LRU cache: entries in order of use, the least recent     *)
(* first                                                              *)
(* ------------------------------------------------------------------ *)

\* props.cache: the LRU's maximum number of entries.
CacheMax == 2

CacheHas(c, k) == \E i \in 1..Len(c) : c[i].k = k

\* cache.get(k): the value, or undefined.
CacheGet(c, k) == IF CacheHas(c, k) THEN c[IndexOf([i \in 1..Len(c) |-> c[i].k], k)].v ELSE Null

RECURSIVE CacheWithout(_, _)
CacheWithout(c, k) ==
    IF c = <<>> THEN <<>>
    ELSE IF Head(c).k = k THEN CacheWithout(Tail(c), k)
    ELSE <<Head(c)>> \o CacheWithout(Tail(c), k)

\* cache.del(k)
CacheDel(c, k) == CacheWithout(c, k)

\* cache.set(k, v): the entry becomes the most recent; past the maximum the
\* least recent entry is dropped.
CacheSet(c, k, v) ==
    LET put == Append(CacheWithout(c, k), [k |-> k, v |-> v])
    IN  IF Len(put) > CacheMax THEN Tail(put) ELSE put

\* A faulty cache.get that drops the entry it returns.
CacheTouchDrops(c, k) == CacheWithout(c, k)

\* The recency update of a cache.get that hits.
CacheTouch(c, k) == IF CacheHas(c, k) THEN CacheSet(c, k, CacheGet(c, k)) ELSE c

(* ------------------------------------------------------------------ *)
(* The Redis cache: the keys present and their values                 *)
(* ------------------------------------------------------------------ *)

\* redisClient.getAsync(k): the value, or null.
RedisGet(r, k) == IF k \in DOMAIN r THEN r[k] ELSE Null

\* redisClient.setAsync(k, v)
RedisSet(r, k, v) == [x \in DOMAIN r \cup {k} |-> IF x = k THEN v ELSE r[x]]

\* redisClient.delAsync(k)
RedisDel(r, k) == [x \in DOMAIN r \ {k} |-> r[x]]

(* ------------------------------------------------------------------ *)
(* State                                                              *)
(* ------------------------------------------------------------------ *)

VARIABLES
    db,      \* the url_mapping table: its rows, in id order
    redis,   \* the Redis cache
    cache,   \* the local LRU cache
    rq,      \* the Redis connection: the commands sent and not yet answered
    tasks,   \* the getURL / putURL calls, in order of start
    resp,    \* the response of each HTTP request, or pending
    nreq,    \* the number of requests received
    faults,  \* the number of Redis operations that have failed
    log      \* history of the completed writes (kept when requests are sequential)

vars == <<db, redis, cache, rq, tasks, resp, nreq, faults, log>>

\* Bounds of the model.
MaxReq == 4
MaxSeqReq == 4
MaxPutReq == 2
MaxInFlight == 2
MaxFaults == 1

\* mapping.error
NoError == "none"
ErrPathNoSlash == "path must contain /"
ErrBothEmpty == "path and url are both empty"

Pending == [status |-> 0, location |-> Null, body |-> <<>>]

\* The requests the model issues.
GetPaths == {<<"a", "/", "b">>, <<"a", "b">>, <<"A", "B">>}

PutItems ==
    { [path |-> <<"/", "a", "/", "b">>, url |-> <<"x">>],
      [path |-> <<"a", "/", "b">>, url |-> <<"y">>],
      [path |-> <<"a", "b">>, url |-> <<"z">>],
      [path |-> <<"a", "b", "c">>, url |-> <<"x">>],
      [path |-> Null, url |-> <<"x">>],
      [path |-> Null, url |-> <<"y">>],
      [path |-> Null, url |-> Null] }

PostBodies ==
    {<<item>> : item \in PutItems}
    \cup { << [path |-> Null, url |-> <<"x">>], [path |-> Null, url |-> <<"x">>] >>,
           << [path |-> <<"a", "/", "b">>, url |-> <<"y">>], [path |-> Null, url |-> Null] >> }

\* The requests of the short-link behaviours: auto-generated writes, two of
\* them of urls whose digests hold '+' and '/' and one of a url whose digest
\* differs from another's in letter case, and an explicit write to the path
\* of a short link.
ShortBodies ==
    { << [path |-> Null, url |-> <<"x">>] >>,
      << [path |-> Null, url |-> <<"y">>] >>,
      << [path |-> Null, url |-> <<"v">>] >>,
      << [path |-> Null, url |-> <<"w">>] >>,
      << [path |-> Null, url |-> <<"z">>] >>,
      << [path |-> <<"a", "b">>, url |-> <<"z">>] >> }

\* The requests of the normalisation behaviours: paths and urls with '/'
\* and white space at their ends.
NormPaths ==
    { Null,
      <<"/", "a", "/", "b">>,
      <<" ", "/", "a", "/", "b">>,
      <<"/", " ", "a", "/", "b", " ">>,
      <<"/", "/", "a">>,
      <<"a", "/", "b", " ">>,
      <<"/">>,
      <<" ">> }

NormUrls == { <<"x">>, <<" ", "x", " ">> }

NormBodies == { << [path |-> p, url |-> u] >> : p \in NormPaths, u \in NormUrls }

\* The requests of the namespace behaviours: an explicit path with a '/',
\* short links of a url whose digest holds a '/' and of one whose digest holds
\* none, and explicit writes to the paths of these short links.
NameBodies ==
    { << [path |-> <<"/", "a", "/", "b">>, url |-> <<"x">>] >>,
      << [path |-> <<"/", "a", "/", "b">>, url |-> <<"x">>],
         [path |-> Null, url |-> <<"w">>] >>,
      << [path |-> Null, url |-> <<"x">>] >>,
      << [path |-> <<"a", "_">>, url |-> <<"y">>] >>,
      << [path |-> <<"a", "b">>, url |-> <<"y">>] >> }

\* The writes of the lookup behaviours: a short link and an explicit path.
TierBodies ==
    { << [path |-> Null, url |-> <<"x">>] >>,
      << [path |-> <<"/", "a", "/", "b">>, url |-> <<"y">>] >> }

\* The requests of the write-only behaviours.
PutBodies ==
    { << [path |-> <<"/", "a", "/", "b">>, url |-> <<"x">>] >>,
      << [path |-> <<"a", "/", "b">>, url |-> <<"y">>] >>,
      << [path |-> Null, url |-> <<"x">>] >>,
      << [path |-> Null, url |-> <<"x">>], [path |-> Null, url |-> <<"x">>] >>,
      << [path |-> <<"a", "/", "b">>, url |-> <<"y">>], [path |-> Null, url |-> Null] >> }

\* let r = await queryOneAsync(...); if (r) location = r.url
StoreUrl(path) ==
    LET r == SelectByPath(db, path) IN IF r # NoRow THEN db[r].url ELSE Null

\* A call that has returned or thrown and has no callback left to run.
Finished(t) == t.pc \in {"done", "failed"} /\ t.bg \in {"none", "lost"}

\* A call that still holds a place in the process: running, or with a
\* cache callback pending.
NumInFlight == Cardinality({i \in 1..Len(tasks) : ~Finished(tasks[i])})

\* The requests that were answered and whose calls had all finished: the
\* process keeps nothing of them.
DeadReqs ==
    {r \in DOMAIN resp :
        /\ resp[r] # Pending
        /\ \A i \in 1..Len(tasks) : tasks[i].req = r => Finished(tasks[i])}

\* A call that has neither returned nor thrown.
Running(t) == t.pc \notin {"done", "failed"}

\* All writes have returned: no putURL is running.
WritesReturned == \A i \in 1..Len(tasks) : tasks[i].kind = "put" => ~Running(tasks[i])

\* Nothing is running and no cache callback is pending.
Settled == \A i \in 1..Len(tasks) : Finished(tasks[i])

(* ------------------------------------------------------------------ *)
(* History of the completed writes                                    *)
(* ------------------------------------------------------------------ *)

NoRun == [path |-> Null, first |-> Null, last |-> Null, n |-> 0]

\* cap: the number of requests the behaviour receives at most.
LogOff == [on |-> FALSE, cap |-> MaxReq, prev |-> <<>>, run |-> NoRun]

\* What a completed putURL was asked and what it did.
Outcome(t) ==
    [auto |-> t.short_id # Null, url |-> t.url, path |-> t.path, ok |-> t.pc = "done",
     error |-> t.error, wrote |-> t.wrote]

\* The run of consecutive explicit-path writes to one path that began with
\* the insert of its record.
RunNext(run, t) ==
    IF t.short_id = Null /\ t.pc = "done" /\ t.wrote = "insert"
    THEN [path |-> t.path, first |-> t.url, last |-> t.url, n |-> 1]
    ELSE IF t.short_id = Null /\ t.pc = "done" /\ t.wrote = "update"
            /\ run.n > 0 /\ run.path = t.path
    THEN [run EXCEPT !.last = t.url, !.n = run.n + 1]
    ELSE NoRun

\* The calls of ts that completed in this step.
Completed(ts) ==
    {i \in 1..Len(ts) :
        /\ ts[i].kind = "put" /\ ~Running(ts[i])
        /\ ~\E j \in 1..Len(tasks) :
              tasks[j].req = ts[i].req /\ tasks[j].idx = ts[i].idx /\ ~Running(tasks[j])}

LogNext(ts) ==
    IF ~log.on \/ Completed(ts) = {} THEN log
    ELSE LET t == ts[CHOOSE i \in Completed(ts) : TRUE]
             both == Append(log.prev, Outcome(t))
         IN  [on |-> TRUE,
              cap |-> log.cap,
              prev |-> IF Len(both) > 2 THEN Tail(both) ELSE both,
              run |-> RunNext(log.run, t)]

\* The next state's calls and responses: those given, less the dead requests.
CommitWith(ts, rs, failed) ==
    LET Alive(t) == t.req \notin DeadReqs
    IN  /\ tasks' = SelectSeq(ts, Alive)
        /\ resp' = [r \in DOMAIN rs \ DeadReqs |-> rs[r]]
        /\ log' = LogNext(ts)
        /\ faults' = faults + failed

Commit(ts, rs) == CommitWith(ts, rs, 0)

\* The step of a Redis operation that fails.
CommitFault(ts, rs) == faults < MaxFaults /\ CommitWith(ts, rs, 1)

\* A request may arrive: under the bound, and, when requests are sequential,
\* only once the previous call has returned or thrown.
MayStart(n) ==
    /\ NumInFlight + n <= MaxInFlight
    /\ nreq < log.cap
    /\ log.on => n = 1 /\ \A i \in 1..Len(tasks) : ~Running(tasks[i])

Empty ==
    /\ db = <<>>
    /\ redis = [k \in {} |-> Null]
    /\ cache = <<>>
    /\ rq = <<>>
    /\ tasks = <<>>
    /\ resp = [r \in {} |-> Pending]
    /\ nreq = 0
    /\ faults = 0

Init == Empty /\ log = LogOff

InitSeq == Empty /\ log = [LogOff EXCEPT !.on = TRUE, !.cap = MaxSeqReq]

InitPut == Empty /\ log = [LogOff EXCEPT !.cap = MaxPutReq]

\* The short links a store may hold when the process starts: the table
\* outlives the process, and props.minShortIdLength may have been 2, 3 or 4
\* when a record was created.  For each of the urls x and u, no record or one
\* record whose short_id is a prefix of the url's encoding.
SeedLengths == {0, 2, 3, 4}

SeedRow(table, url, n) ==
    IF n = 0 \/ ~UniqueOk(table, Substring0(LongId(url), n), Substring0(LongId(url), n))
    THEN table
    ELSE InsertRow(table, Substring0(LongId(url), n), Substring0(LongId(url), n), url)

SeedTables ==
    {SeedRow(SeedRow(<<>>, <<"x">>, n1), <<"u">>, n2) : n1 \in SeedLengths, n2 \in SeedLengths}

\* The process starts on a store that holds short links already.
InitStore ==
    /\ db \in SeedTables
    /\ redis = [k \in {} |-> Null]
    /\ cache = <<>>
    /\ rq = <<>>
    /\ tasks = <<>>
    /\ resp = [r \in {} |-> Pending]
    /\ nreq = 0
    /\ faults = 0
    /\ log = [LogOff EXCEPT !.cap = MaxPutReq]

(* ------------------------------------------------------------------ *)
(* The Redis connection                                               *)
(* ------------------------------------------------------------------ *)

\* A command of call t, as sent.  The one connection answers in the order
\* of sending, and a command's callback runs when its answer arrives.
Cmd(op, t) == [op |-> op, key |-> t.path, val |-> t.location, req |-> t.req, idx |-> t.idx]

\* The next answer is that of command op of call i.
Answers(i, op) ==
    /\ rq # <<>>
    /\ Head(rq).op = op /\ Head(rq).req = tasks[i].req /\ Head(rq).idx = tasks[i].idx

(* ------------------------------------------------------------------ *)
(* getURL                                                             *)
(* ------------------------------------------------------------------ *)

GetTask(r, path, pc, location) ==
    [req |-> r, idx |-> 1, kind |-> "get", pc |-> pc, path |-> path, url |-> Null,
     short_id |-> Null, row |-> NoRow, error |-> NoError, location |-> location,
     bg |-> "none", wrote |-> "none", ask |-> [path |-> Null, url |-> Null],
     tier |-> IF pc = "done" THEN "local" ELSE "none",
     since |-> IF Settled THEN "settled" ELSE IF WritesReturned THEN "returned" ELSE "busy"]

\* get(): 302 with the location, or 404.
GetResponse(location) ==
    IF Truthy(location)
    THEN [status |-> 302, location |-> location, body |-> <<>>]
    ELSE [status |-> 404, location |-> Null, body |-> <<>>]

ServerError == [status |-> 500, location |-> Null, body |-> <<>>]

WithResp(r, v) == [x \in DOMAIN resp \cup {r} |-> IF x = r THEN v ELSE resp[x]]

\* A GET arrives: getURL runs up to its first await.  A local hit returns at
\* once; a miss sends the Redis get.
StartGet(path) ==
    /\ MayStart(1)
    /\ nreq' = nreq + 1
    /\ LET r == nreq + 1
           hit == CacheGet(cache, path)
           t == GetTask(r, path, "redisGet", Null)
       IN  IF Truthy(hit)
           THEN /\ cache' = CacheTouch(cache, path)
                /\ rq' = rq
                /\ Commit(Append(tasks, GetTask(r, path, "done", hit)),
                          WithResp(r, GetResponse(hit)))
           ELSE /\ cache' = cache
                /\ rq' = Append(rq, Cmd("get", t))
                /\ Commit(Append(tasks, t), WithResp(r, Pending))
    /\ UNCHANGED <<db, redis>>

\* Redis answers the get and getURL resumes.  A hit is put in the local
\* cache and returned; a miss sends the store query; a failed get rejects
\* getURL, and the handler's catch answers 500.
GetRedis(i) ==
    /\ tasks[i].kind = "get" /\ tasks[i].pc = "redisGet"
    /\ Answers(i, "get")
    /\ rq' = Tail(rq)
    /\ LET location == RedisGet(redis, tasks[i].path)
       IN  \/ /\ Truthy(location)
              /\ cache' = CacheSet(cache, tasks[i].path, location)
              /\ Commit([tasks EXCEPT ![i].pc = "done", ![i].location = location,
                                      ![i].tier = "redis"],
                        WithResp(tasks[i].req, GetResponse(location)))
           \/ /\ ~Truthy(location)
              /\ cache' = cache
              /\ Commit([tasks EXCEPT ![i].pc = "query"], resp)
           \/ /\ cache' = cache
              /\ CommitFault([tasks EXCEPT ![i].pc = "failed"],
                             WithResp(tasks[i].req, ServerError))
    /\ UNCHANGED <<db, redis, nreq>>

\* The store runs the select by path.
GetQuery(i) ==
    /\ tasks[i].kind = "get" /\ tasks[i].pc = "query"
    /\ Commit([tasks EXCEPT ![i].pc = "queried", ![i].location = StoreUrl(tasks[i].path)],
              resp)
    /\ UNCHANGED <<db, redis, cache, rq, nreq>>

\* getURL resumes with the row: it sends the Redis set of a location it
\* found and returns without waiting for it.
GetReturn(i) ==
    /\ tasks[i].kind = "get" /\ tasks[i].pc = "queried"
    /\ LET found == Truthy(tasks[i].location)
       IN  /\ rq' = IF found THEN Append(rq, Cmd("set", tasks[i])) ELSE rq
           /\ Commit([tasks EXCEPT ![i].pc = "done", ![i].tier = "store",
                                   ![i].bg = IF found THEN "redisSet" ELSE "none"],
                     WithResp(tasks[i].req, GetResponse(tasks[i].location)))
    /\ UNCHANGED <<db, redis, cache, nreq>>

\* redisClient.setAsync(path, location) is answered: fulfilled, the
\* then-callback does cache.set(path, location); rejected, nothing runs.
BgRedisSet(i) ==
    /\ tasks[i].bg = "redisSet"
    /\ Answers(i, "set")
    /\ rq' = Tail(rq)
    /\ \/ /\ redis' = RedisSet(redis, tasks[i].path, tasks[i].location)
          /\ cache' = CacheSet(cache, tasks[i].path, tasks[i].location)
          /\ Commit([tasks EXCEPT ![i].bg = "none"], resp)
       \/ /\ redis' = redis
          /\ cache' = cache
          /\ CommitFault([tasks EXCEPT ![i].bg = "lost"], resp)
    /\ UNCHANGED <<db, nreq>>

(* ------------------------------------------------------------------ *)
(* putURL and put                                                     *)
(* ------------------------------------------------------------------ *)

\* putURL up to its first await: the normalisation and the choice of branch.
PutBegin(r, idx, item) ==
    LET path == NormalizePath(item.path)
        url == NormalizeUrl(item.url)
        base == [req |-> r, idx |-> idx, kind |-> "put", pc |-> "selPath", path |-> path,
                 url |-> url, short_id |-> Null, row |-> NoRow, error |-> NoError,
                 location |-> Null, bg |-> "none", wrote |-> "none", ask |-> item,
                 tier |-> "none", since |-> "busy"]
    IN  IF Truthy(path) THEN base
        ELSE IF Truthy(url)
        THEN LET short == Substring0(LongId(url), minShortIdLength)
             IN  [base EXCEPT !.pc = "selLike", !.path = short, !.short_id = short]
        ELSE [base EXCEPT !.pc = "done", !.error = ErrBothEmpty]

\* JSON.stringify(result, ['path', 'url', 'error'])
ItemResult(t) == [path |-> t.path, url |-> t.url, error |-> t.error]

\* The call of request r at position idx of its list.
TaskAt(ts, r, idx) == CHOOSE i \in 1..Len(ts) : ts[i].req = r /\ ts[i].idx = idx

\* A faulty put() that answers with the results in reverse order.
PostResponseReversed(ts, r, old) ==
    LET mine == {i \in 1..Len(ts) : ts[i].req = r}
        n == Cardinality(mine)
    IN  IF old # Pending THEN old
        ELSE IF \E i \in mine : ts[i].pc = "failed" THEN ServerError
        ELSE IF \A i \in mine : ts[i].pc = "done"
        THEN [status |-> 200, location |-> Null,
              body |-> [k \in 1..n |-> ItemResult(ts[TaskAt(ts, r, n + 1 - k)])]]
        ELSE Pending

\* put(): Promise.all over the list: 200 with the results in list order once
\* every putURL has returned, 500 as soon as one has thrown.
PostResponse(ts, r, old) ==
    LET mine == {i \in 1..Len(ts) : ts[i].req = r}
    IN  IF old # Pending THEN old
        ELSE IF \E i \in mine : ts[i].pc = "failed" THEN ServerError
        ELSE IF \A i \in mine : ts[i].pc = "done"
        THEN [status |-> 200, location |-> Null,
              body |-> [k \in 1..Cardinality(mine) |-> ItemResult(ts[TaskAt(ts, r, k)])]]
        ELSE Pending

\* Call i becomes t; its request is answered if that settles Promise.all.
Settle(i, t) ==
    LET ts == [tasks EXCEPT ![i] = t]
    IN  Commit(ts, WithResp(t.req, PostResponse(ts, t.req, resp[t.req])))

\* A POST arrives with a list: list.map(putURL) runs every putURL up to its
\* first await, in list order.
StartPost(body) ==
    /\ MayStart(Len(body))
    /\ nreq' = nreq + 1
    /\ LET r == nreq + 1
           old == [i \in 1..Len(tasks) |-> [tasks[i] EXCEPT !.since = "busy"]]
           ts == old \o [k \in 1..Len(body) |-> PutBegin(r, k, body[k])]
       IN  Commit(ts, WithResp(r, PostResponse(ts, r, Pending)))
    /\ UNCHANGED <<db, redis, cache, rq>>

\* A faulty branch A that inserts whatever the path.
PathBranchNoTest(m, path) == IF m # NoRow THEN "update" ELSE "insert"

\* Branch A after the select: update the record found; with none, insert if
\* the path holds a '/', else set the error.
PathBranch(m, path) ==
    IF m # NoRow THEN "update" ELSE IF HasSlash(path) THEN "insert" ELSE "reject"

\* Branch A: the store runs the select by path, and putURL resumes: it sends
\* the update or the insert, or sets the error.
PutSelPath(i) ==
    /\ tasks[i].kind = "put" /\ tasks[i].pc = "selPath"
    /\ LET m == SelectByPath(db, tasks[i].path)
           branch == PathBranch(m, tasks[i].path)
       IN  IF branch = "update"
           THEN Settle(i, [tasks[i] EXCEPT !.pc = "update", !.row = m])
           ELSE IF branch = "insert"
           THEN Settle(i, [tasks[i] EXCEPT !.pc = "insert"])
           ELSE Settle(i, [tasks[i] EXCEPT !.pc = "returning", !.error = ErrPathNoSlash])
    /\ UNCHANGED <<db, redis, cache, rq, nreq>>

\* Branch A, record found: the store runs the update by id.
PutUpdate(i) ==
    /\ tasks[i].kind = "put" /\ tasks[i].pc = "update"
    /\ db' = UpdateRow(db, tasks[i].row, tasks[i].url)
    /\ Settle(i, [tasks[i] EXCEPT !.pc = "returning", !.wrote = "update"])
    /\ UNCHANGED <<redis, cache, rq, nreq>>

\* The store runs an insert: the row is added, or a unique index rejects it
\* and putURL throws.
InsertOrThrow(i) ==
    IF UniqueOk(db, tasks[i].short_id, tasks[i].path)
    THEN /\ db' = InsertRow(db, tasks[i].short_id, tasks[i].path, tasks[i].url)
         /\ Settle(i, [tasks[i] EXCEPT !.pc = "returning", !.wrote = "insert"])
    ELSE /\ db' = db
         /\ Settle(i, [tasks[i] EXCEPT !.pc = "failed"])

\* Branch A, no record and a path with '/': the insert with a null short_id.
PutInsert(i) ==
    /\ tasks[i].kind = "put" /\ tasks[i].pc = "insert"
    /\ InsertOrThrow(i)
    /\ UNCHANGED <<redis, cache, rq, nreq>>

\* let length = r[r.length - 1]['short_id'].length, when r.length > 0; the
\* candidate keeps its length otherwise.
RecutLength(r, short_id) ==
    IF r # <<>> THEN Len(r[Len(r)].short_id) ELSE Len(short_id)

\* Branch B: the store runs the select by short_id prefix, and putURL
\* resumes: the candidate is recut to the length of the last row's short_id,
\* and a row with the same url replaces the mapping; without one the insert
\* is sent.
PutSelLike(i) ==
    /\ tasks[i].kind = "put" /\ tasks[i].pc = "selLike"
    /\ LET r == SelectLike(db, tasks[i].short_id)
           length == RecutLength(r, tasks[i].short_id)
           short == Substring0(LongId(tasks[i].url), length)
           same == {k \in 1..Len(r) : r[k].url = tasks[i].url}
       IN  IF same # {}
           THEN LET m == r[CHOOSE k \in same : \A j \in same : j <= k]
                IN  Settle(i, [tasks[i] EXCEPT !.pc = "returning", !.path = m.path,
                                               !.url = m.url, !.short_id = m.short_id,
                                               !.row = m.id])
           ELSE Settle(i, [tasks[i] EXCEPT !.pc = "insertShort", !.path = short,
                                           !.short_id = short])
    /\ UNCHANGED <<db, redis, cache, rq, nreq>>

\* Branch B, no row with the same url: the insert with short_id = path.
PutInsertShort(i) ==
    /\ tasks[i].kind = "put" /\ tasks[i].pc = "insertShort"
    /\ InsertOrThrow(i)
    /\ UNCHANGED <<redis, cache, rq, nreq>>

\* Lines 112-115: putURL resumes after its last store operation; the
\* invalidation is sent for a truthy path, and the mapping is returned
\* without waiting for it.
PutReturn(i) ==
    /\ tasks[i].kind = "put" /\ tasks[i].pc = "returning"
    /\ LET invalidate == Truthy(tasks[i].path)
       IN  /\ rq' = IF invalidate THEN Append(rq, Cmd("del", tasks[i])) ELSE rq
           /\ Settle(i, [tasks[i] EXCEPT !.pc = "done",
                                         !.bg = IF invalidate THEN "redisDel" ELSE "none"])
    /\ UNCHANGED <<db, redis, cache, nreq>>

\* A faulty invalidation whose callback runs cache.del although the Redis
\* delete has not been done.
BgCacheDelFirst(i) ==
    /\ tasks[i].bg = "redisDel"
    /\ Answers(i, "del")
    /\ rq' = Tail(rq)
    /\ redis' = redis
    /\ cache' = CacheDel(cache, tasks[i].path)
    /\ Commit([tasks EXCEPT ![i].bg = "none"], resp)
    /\ UNCHANGED <<db, nreq>>

\* redisClient.delAsync(path) is answered: fulfilled, the then-callback does
\* cache.del(mapping.path); rejected, nothing runs.
BgRedisDel(i) ==
    /\ tasks[i].bg = "redisDel"
    /\ Answers(i, "del")
    /\ rq' = Tail(rq)
    /\ \/ /\ redis' = RedisDel(redis, tasks[i].path)
          /\ cache' = CacheDel(cache, tasks[i].path)
          /\ Commit([tasks EXCEPT ![i].bg = "none"], resp)
       \/ /\ redis' = redis
          /\ cache' = cache
          /\ CommitFault([tasks EXCEPT ![i].bg = "lost"], resp)
    /\ UNCHANGED <<db, nreq>>

(* ------------------------------------------------------------------ *)
(* Specification                                                      *)
(* ------------------------------------------------------------------ *)

Next ==
    \/ \E path \in GetPaths : StartGet(path)
    \/ \E body \in PostBodies : StartPost(body)
    \/ \E i \in 1..Len(tasks) : GetRedis(i)
    \/ \E i \in 1..Len(tasks) : GetQuery(i)
    \/ \E i \in 1..Len(tasks) : GetReturn(i)
    \/ \E i \in 1..Len(tasks) : BgRedisSet(i)
    \/ \E i \in 1..Len(tasks) : PutSelPath(i)
    \/ \E i \in 1..Len(tasks) : PutUpdate(i)
    \/ \E i \in 1..Len(tasks) : PutInsert(i)
    \/ \E i \in 1..Len(tasks) : PutSelLike(i)
    \/ \E i \in 1..Len(tasks) : PutInsertShort(i)
    \/ \E i \in 1..Len(tasks) : PutReturn(i)
    \/ \E i \in 1..Len(tasks) : BgRedisDel(i)

\* Requests arrive at any time, up to MaxReq of them.
Spec == Init /\ [][Next]_vars

\* Requests arrive one at a time, each after the previous call has returned
\* or thrown (cache callbacks may still be pending), up to MaxSeqReq of them.
SpecSeq == InitSeq /\ [][Next]_vars

\* The lookups of GetPaths among the writes of TierBodies.
NextTier ==
    \/ \E path \in GetPaths : StartGet(path)
    \/ \E body \in TierBodies : StartPost(body)
    \/ \E i \in 1..Len(tasks) : GetRedis(i)
    \/ \E i \in 1..Len(tasks) : GetQuery(i)
    \/ \E i \in 1..Len(tasks) : GetReturn(i)
    \/ \E i \in 1..Len(tasks) : BgRedisSet(i)
    \/ \E i \in 1..Len(tasks) : PutSelPath(i)
    \/ \E i \in 1..Len(tasks) : PutUpdate(i)
    \/ \E i \in 1..Len(tasks) : PutInsert(i)
    \/ \E i \in 1..Len(tasks) : PutSelLike(i)
    \/ \E i \in 1..Len(tasks) : PutInsertShort(i)
    \/ \E i \in 1..Len(tasks) : PutReturn(i)
    \/ \E i \in 1..Len(tasks) : BgRedisDel(i)

\* These requests arrive one at a time, up to MaxSeqReq of them.
SpecTier == InitSeq /\ [][NextTier]_vars

\* The write requests alone: the POSTs of PutBodies arrive at any time, up
\* to MaxPutReq of them, and no GET does.
NextPut ==
    \/ \E body \in PutBodies : StartPost(body)
    \/ \E i \in 1..Len(tasks) : PutSelPath(i)
    \/ \E i \in 1..Len(tasks) : PutUpdate(i)
    \/ \E i \in 1..Len(tasks) : PutInsert(i)
    \/ \E i \in 1..Len(tasks) : PutSelLike(i)
    \/ \E i \in 1..Len(tasks) : PutInsertShort(i)
    \/ \E i \in 1..Len(tasks) : PutReturn(i)
    \/ \E i \in 1..Len(tasks) : BgRedisDel(i)

SpecPut == InitPut /\ [][NextPut]_vars

\* The short-link writes alone: the POSTs of ShortBodies arrive at any time,
\* up to MaxPutReq of them.
NextShort ==
    \/ \E body \in ShortBodies : StartPost(body)
    \/ \E i \in 1..Len(tasks) : PutSelPath(i)
    \/ \E i \in 1..Len(tasks) : PutUpdate(i)
    \/ \E i \in 1..Len(tasks) : PutSelLike(i)
    \/ \E i \in 1..Len(tasks) : PutInsertShort(i)
    \/ \E i \in 1..Len(tasks) : PutReturn(i)
    \/ \E i \in 1..Len(tasks) : BgRedisDel(i)

SpecShort == InitPut /\ [][NextShort]_vars

\* Writes alone, of the paths and urls of NameBodies.
NextNames ==
    \/ \E body \in NameBodies : StartPost(body)
    \/ \E i \in 1..Len(tasks) : PutSelPath(i)
    \/ \E i \in 1..Len(tasks) : PutUpdate(i)
    \/ \E i \in 1..Len(tasks) : PutInsert(i)
    \/ \E i \in 1..Len(tasks) : PutSelLike(i)
    \/ \E i \in 1..Len(tasks) : PutInsertShort(i)
    \/ \E i \in 1..Len(tasks) : PutReturn(i)
    \/ \E i \in 1..Len(tasks) : BgRedisDel(i)

SpecNames == InitPut /\ [][NextNames]_vars

\* Writes alone, of the paths and urls of NormBodies.
NextNorm ==
    \/ \E body \in NormBodies : StartPost(body)
    \/ \E i \in 1..Len(tasks) : PutSelPath(i)
    \/ \E i \in 1..Len(tasks) : PutUpdate(i)
    \/ \E i \in 1..Len(tasks) : PutInsert(i)
    \/ \E i \in 1..Len(tasks) : PutSelLike(i)
    \/ \E i \in 1..Len(tasks) : PutInsertShort(i)
    \/ \E i \in 1..Len(tasks) : PutReturn(i)
    \/ \E i \in 1..Len(tasks) : BgRedisDel(i)

SpecNorm == InitPut /\ [][NextNorm]_vars

\* The short-link writes on a store that holds short links already.
SpecStore == InitStore /\ [][NextShort]_vars

(* ------------------------------------------------------------------ *)
(* Properties                                                         *)
(* ------------------------------------------------------------------ *)

IsPrefix(s, t) == Len(s) <= Len(t) /\ SubSeq(t, 1, Len(s)) = s

GetsDone == {i \in 1..Len(tasks) : tasks[i].kind = "get" /\ tasks[i].pc = "done"}

Puts == {i \in 1..Len(tasks) : tasks[i].kind = "put"}

\* C1: cache coherence.  With no cache operation having failed, a resolve
\* that started when every write had returned (their invalidations possibly
\* still pending), with no write started since, returns the url the store
\* holds for the path.
C1_CoherentAfterWriteReturns ==
    \A i \in GetsDone :
        (faults = 0 /\ tasks[i].since \in {"settled", "returned"}) =>
            tasks[i].location = StoreUrl(tasks[i].path)

\* C2: settled freshness.  With no cache operation having failed, a resolve
\* that started when no call was running and no population or invalidation
\* was pending, with no write started since, returns the url the store holds
\* for the path.
C2_FreshOnceSettled ==
    \A i \in GetsDone :
        (faults = 0 /\ tasks[i].since = "settled") =>
            tasks[i].location = StoreUrl(tasks[i].path)

\* C3: idempotence of auto short-link creation.  Two consecutive
\* write({url: U}) calls with the same U both return, with the same path,
\* and the second writes nothing.
C3_AutoWriteIdempotent ==
    (log.on /\ Len(log.prev) = 2 /\ log.prev[1].auto /\ log.prev[2].auto
        /\ log.prev[1].url = log.prev[2].url)
    => /\ log.prev[1].ok /\ log.prev[2].ok
       /\ log.prev[1].path = log.prev[2].path
       /\ log.prev[2].wrote = "none"

\* C4: collision growth.  After write({url: U}) and write({url: V}) for
\* distinct U and V whose encodings share their first minShortIdLength
\* characters, both are mapped, to distinct short ids, each longer than
\* minShortIdLength and each a prefix of its own url's encoding.
C4_CollisionGrowth ==
    (log.on /\ Len(log.prev) = 2 /\ log.prev[1].auto /\ log.prev[2].auto
        /\ log.prev[1].url # log.prev[2].url
        /\ Substring0(LongId(log.prev[1].url), minShortIdLength)
             = Substring0(LongId(log.prev[2].url), minShortIdLength))
    => /\ log.prev[1].ok /\ log.prev[2].ok
       /\ log.prev[1].path # log.prev[2].path
       /\ \A k \in 1..2 :
            /\ Len(log.prev[k].path) > minShortIdLength
            /\ IsPrefix(log.prev[k].path, LongId(log.prev[k].url))
            /\ \E r \in 1..Len(db) : db[r].short_id = log.prev[k].path

\* C5: update by path.  After a sequence of sequential writes to one path
\* with a '/', the first of which found no record, and with no write under
\* way, the store holds exactly one record with that path; its url is the
\* last url written and its origin_url the first.
C5_UpdateByPath ==
    (log.on /\ log.run.n > 0 /\ HasSlash(log.run.path) /\ WritesReturned)
    => LET rows == {r \in 1..Len(db) : db[r].path = log.run.path}
       IN  /\ Cardinality(rows) = 1
           /\ \A r \in rows :
                db[r].url = log.run.last /\ db[r].origin_url = log.run.first

\* C5's case: a path written twice or more, the last url not the first.
C5_Witness == log.on /\ log.run.n >= 2 /\ log.run.first # log.run.last /\ WritesReturned

\* C6: validation.  A write with neither path nor url returns an error and
\* writes no record; a write with a path that has no '/' and no record
\* returns an error and writes no record.
C6_ValidationWritesNothing ==
    \A i \in Puts :
        /\ (~Truthy(tasks[i].path) /\ ~Truthy(tasks[i].url))
             => /\ tasks[i].pc = "done"
                /\ tasks[i].error = ErrBothEmpty
                /\ tasks[i].wrote = "none"
        /\ (tasks[i].short_id = Null /\ Truthy(tasks[i].path) /\ ~HasSlash(tasks[i].path)
                /\ tasks[i].row = NoRow /\ ~Running(tasks[i]))
             => /\ tasks[i].pc = "done"
                /\ tasks[i].error = ErrPathNoSlash
                /\ tasks[i].wrote = "none"

\* C6's case: a write of a path with no '/' and no record has returned its
\* error, with records of other writes in the store.
C6_Witness ==
    \E i \in Puts :
        /\ tasks[i].error = ErrPathNoSlash /\ tasks[i].pc = "done"
        /\ db # <<>>

\* C7: a path for which no record was ever written resolves to absent, and
\* no cache tier holds a value for it.  (Records are never deleted: the
\* paths ever written are the paths of the rows.)
C7_NeverWrittenIsAbsent ==
    LET written == {db[r].path : r \in 1..Len(db)}
    IN  /\ \A i \in GetsDone : Truthy(tasks[i].location) => tasks[i].path \in written
        /\ \A k \in DOMAIN redis : k \in written
        /\ \A j \in 1..Len(cache) : cache[j].k \in written

\* C8: a putURL whose insert the store rejects is reported as an error of
\* its own item in a 200 response that still carries the other items.
C8_ConflictIsPerItemError ==
    \A i \in Puts :
        tasks[i].pc = "failed" =>
            \/ resp[tasks[i].req] = Pending
            \/ /\ resp[tasks[i].req].status = 200
               /\ resp[tasks[i].req].body[tasks[i].idx].error # NoError

\* C9: a failing cache operation never fails the primary operation: no GET
\* is answered 500, and no putURL throws without the store having rejected
\* its insert.
C9_CacheFailureNeverSurfaces ==
    /\ \A i \in 1..Len(tasks) :
         tasks[i].kind = "get" => tasks[i].pc # "failed" /\ resp[tasks[i].req].status # 500
    /\ \A i \in Puts : tasks[i].pc = "failed" => tasks[i].bg = "none"

\* C10: no invalidation on a failed write: a write item that ends with an
\* error, or whose store write failed, issues no cache delete.
C10_NoInvalidationOnError ==
    \A i \in Puts :
        (tasks[i].error # NoError \/ tasks[i].pc = "failed") => tasks[i].bg = "none"

\* C11: store uniqueness.  In every state, under any interleaving of
\* concurrent writes, no two records have the same path and no two records
\* have the same non-null short_id (compared as the columns compare them,
\* hence also character for character).
C11_StoreUnique ==
    \A r1 \in 1..Len(db) : \A r2 \in 1..Len(db) :
        r1 # r2 =>
            /\ ~CollEq(db[r1].path, db[r2].path)
            /\ db[r1].path # db[r2].path
            /\ (db[r1].short_id # Null /\ db[r2].short_id # Null)
                 => /\ ~CollEq(db[r1].short_id, db[r2].short_id)
                    /\ db[r1].short_id # db[r2].short_id

\* C11's case: a write lost a race and its insert was rejected for a path
\* that another write's record holds.
C11_Witness ==
    \E i \in Puts :
        /\ tasks[i].pc = "failed"
        /\ \E r \in 1..Len(db) : CollEq(db[r].path, tasks[i].path)

\* C12: batch order.  A write call answered with a result list has one item
\* for each request of its list, and item k is the outcome of the k-th
\* request: the mapping that request's putURL returned, with the path and
\* url asked (normalised), or the error of an empty request.
C12_BatchOrder ==
    \A i \in Puts :
        LET r == tasks[i].req
            ask == tasks[i].ask
        IN  resp[r].status = 200 =>
              /\ Len(resp[r].body) = Cardinality({j \in Puts : tasks[j].req = r})
              /\ tasks[i].idx \in 1..Len(resp[r].body)
              /\ LET item == resp[r].body[tasks[i].idx]
                 IN  /\ item = ItemResult(tasks[i])
                     /\ Truthy(NormalizePath(ask.path)) =>
                           /\ item.path = NormalizePath(ask.path)
                           /\ item.url = NormalizeUrl(ask.url)
                     /\ (~Truthy(NormalizePath(ask.path)) /\ Truthy(NormalizeUrl(ask.url))) =>
                           item.url = NormalizeUrl(ask.url)
                     /\ (~Truthy(NormalizePath(ask.path)) /\ ~Truthy(NormalizeUrl(ask.url))) =>
                           item.error = ErrBothEmpty

\* C12's case: a list of two requests is answered, the second of which
\* completed first (it is empty and returns at once, the first goes to the
\* store).
C12_Witness ==
    \E r \in DOMAIN resp :
        /\ resp[r].status = 200 /\ Len(resp[r].body) = 2
        /\ resp[r].body[1].error = NoError /\ resp[r].body[1].path = <<"a", "/", "b">>
        /\ resp[r].body[2].error = ErrBothEmpty

\* The write whose putURL sent the Redis command c.
Sender(c) == {i \in Puts : tasks[i].req = c.req /\ tasks[i].idx = c.idx}

\* C13: write/invalidate ordering.  (1) the store operations of a write
\* are complete before (2) its Redis delete is sent, and (3) the local
\* cache delete is done only when that Redis delete has been done, on the
\* same key: a delete is sent only by a putURL past its last store
\* operation, a pending delete belongs to a putURL that has returned, and
\* the local cache loses an entry only in the step in which Redis has
\* removed the same key.
C13_WriteThenInvalidate ==
    /\ [](\A i \in Puts : tasks[i].bg = "redisDel" => tasks[i].pc = "done")
    /\ [](\A k \in 1..Len(rq) :
            rq[k].op = "del" =>
                \E i \in Sender(rq[k]) : tasks[i].pc = "done" /\ tasks[i].bg = "redisDel")
    /\ [][ /\ (Len(rq') > Len(rq) /\ rq'[Len(rq')].op = "del") =>
               \E i \in Sender(rq'[Len(rq')]) :
                   tasks[i].pc = "returning" /\ rq'[Len(rq')].key = tasks[i].path
           /\ Len(cache') < Len(cache) =>
               /\ rq # <<>> /\ Head(rq).op = "del" /\ rq' = Tail(rq)
               /\ Head(rq).key \notin DOMAIN redis'
               /\ cache' = CacheDel(cache, Head(rq).key) ]_vars

\* C13's case: a write has updated or inserted its record and returned, its
\* Redis delete is the next to be answered, and both cache tiers hold an
\* entry for its path.
C13_Witness ==
    \E i \in Puts :
        /\ tasks[i].wrote # "none" /\ tasks[i].pc = "done" /\ tasks[i].bg = "redisDel"
        /\ rq # <<>> /\ Head(rq).op = "del" /\ Head(rq).key = tasks[i].path
        /\ tasks[i].path \in DOMAIN redis /\ CacheHas(cache, tasks[i].path)

\* C14: update frame.  Every step keeps the id, path, short_id and
\* origin_url of every record; a step that changes a url changes it in one
\* record only, the one found by an explicit-path write that is at its
\* update, to the url of that write, and adds no record; a record is created
\* with origin_url equal to its url.  Hence each record's origin_url is
\* the url it was created with.
C14_UpdateFrame ==
    [][ LET changed == {r \in 1..Len(db) : db'[r].url # db[r].url}
        IN  /\ Len(db') >= Len(db)
            /\ \A r \in 1..Len(db) :
                  /\ db'[r].id = db[r].id /\ db'[r].path = db[r].path
                  /\ db'[r].short_id = db[r].short_id
                  /\ db'[r].origin_url = db[r].origin_url
            /\ \A r \in (Len(db) + 1)..Len(db') : db'[r].origin_url = db'[r].url
            /\ Cardinality(changed) <= 1
            /\ \A r \in changed :
                  /\ Len(db') = Len(db)
                  /\ \E i \in Puts :
                        /\ tasks[i].pc = "update" /\ tasks[i].row = r
                        /\ tasks[i].short_id = Null
                        /\ CollEq(db[r].path, tasks[i].path)
                        /\ db'[r].url = tasks[i].url ]_vars

\* C14's case: an explicit-path write has updated a record, whose url now
\* differs from its origin_url, with another record in the store.
C14_Witness ==
    \E i \in Puts :
        /\ tasks[i].wrote = "update" /\ tasks[i].row # NoRow
        /\ Len(db) >= 2
        /\ db[tasks[i].row].url = tasks[i].url
        /\ db[tasks[i].row].url # db[tasks[i].row].origin_url

\* C15: short-id well-formedness.  Every record with a non-null short_id
\* has path = short_id, and its short_id is a prefix, of at least
\* minShortIdLength characters, of the url-safe encoding of the hash of its
\* origin_url.
C15_ShortIdWellFormed ==
    \A r \in 1..Len(db) :
        db[r].short_id # Null =>
            /\ db[r].path = db[r].short_id
            /\ Len(db[r].short_id) >= minShortIdLength
            /\ IsPrefix(db[r].short_id, LongId(db[r].origin_url))

\* C15's case: two auto-generated records, one of a url whose digest holds
\* a character that urlSafe replaces.
C15_Witness ==
    \E r1 \in 1..Len(db) : \E r2 \in 1..Len(db) :
        /\ r1 # r2 /\ db[r1].short_id # Null /\ db[r2].short_id # Null
        /\ \E k \in 1..Len(db[r2].short_id) : db[r2].short_id[k] \in {"-", "_"}

\* C16: read-through population, as a property of every step.
\*  (a) When the Redis set of a resolve that found its url in the store is
\*      answered and fulfilled, Redis and then the local cache hold that url
\*      for the path.
\*  (b) When the Redis get of a resolve finds a value, the local cache is
\*      given that value and the resolve returns it.
\*  (c) A resolve that finds the path in the local cache returns that value
\*      and sends nothing to Redis or the store.
\*  (d) The value a cache tier holds for a path changes only by the entry
\*      being removed: an entry populated with U still holds U, and the next
\*      resolve returns U, as long as no invalidation or eviction removed it.
C16_ReadThrough ==
    [][ /\ (rq # <<>> /\ rq' = Tail(rq) /\ faults' = faults /\ Head(rq).op = "set") =>
              /\ RedisGet(redis', Head(rq).key) = Head(rq).val
              /\ CacheGet(cache', Head(rq).key) = Head(rq).val
        /\ (rq # <<>> /\ rq' = Tail(rq) /\ faults' = faults /\ Head(rq).op = "get"
                /\ Truthy(RedisGet(redis, Head(rq).key))) =>
              /\ CacheGet(cache', Head(rq).key) = RedisGet(redis, Head(rq).key)
              /\ resp'[Head(rq).req] = GetResponse(RedisGet(redis, Head(rq).key))
              /\ db' = db
        /\ \A path \in GetPaths :
              (StartGet(path) /\ Truthy(CacheGet(cache, path))) =>
                  /\ resp'[nreq'] = GetResponse(CacheGet(cache, path))
                  /\ rq' = rq
        /\ \A k \in DOMAIN redis \cap DOMAIN redis' : redis'[k] = redis[k]
        /\ \A j \in 1..Len(cache) :
              CacheHas(cache', cache[j].k) => CacheGet(cache', cache[j].k) = cache[j].v ]_vars

\* The greatest length of the short_ids of the rows r.
MaxShortIdLength(r) ==
    CHOOSE n \in {Len(r[k].short_id) : k \in 1..Len(r)} :
        \A k \in 1..Len(r) : Len(r[k].short_id) <= n

\* C17: collision length.  Whatever short links the store holds, when the
\* select of an auto-generated write returns records and none of them has
\* the url asked, the candidate the write goes on to insert has the greatest
\* length of the short_ids returned.
C17_CollisionLength ==
    [][ \A i \in Puts :
          LET r == SelectLike(db, tasks[i].short_id)
          IN  (tasks[i].pc = "selLike" /\ PutSelLike(i) /\ r # <<>>) =>
                \A j \in 1..Len(tasks') :
                    (tasks'[j].req = tasks[i].req /\ tasks'[j].idx = tasks[i].idx
                        /\ tasks'[j].pc = "insertShort")
                    => Len(tasks'[j].short_id) = MaxShortIdLength(r) ]_vars

\* A string with no white space at either end.
Trimmed(s) == s = <<>> \/ (~IsSpace(Head(s)) /\ ~IsSpace(s[Len(s)]))

\* C18: normalisation.  Whatever the strings of the request, the path a
\* write looks up, inserts and invalidates has no leading '/' and no white
\* space at its ends, its url has no white space at its ends, and a path
\* that normalises to the empty string is treated as no path.
C18_Normalized ==
    \A i \in Puts :
        /\ Truthy(tasks[i].path) =>
              /\ Head(tasks[i].path) # "/"
              /\ Trimmed(tasks[i].path)
        /\ Truthy(tasks[i].url) => Trimmed(tasks[i].url)
        /\ (Truthy(tasks[i].ask.path) /\ ~Truthy(NormalizePath(tasks[i].ask.path))) =>
              \/ tasks[i].short_id # Null
              \/ tasks[i].error = ErrBothEmpty

\* The keys and values a local cache holds, whatever their order of use.
Entries(c) == {c[j] : j \in 1..Len(c)}

\* The tier order of a step: a resolve that misses the local cache sends
\* the Redis get and nothing else; the store is queried only by a resolve
\* whose Redis get was answered with no value, and a resolve is at its Redis
\* get only after a local miss; a resolve that hits the local cache returns
\* that value at once and sends nothing to Redis or the store.
TierOrder ==
    /\ \A path \in GetPaths :
          StartGet(path) =>
              IF Truthy(CacheGet(cache, path))
              THEN /\ resp'[nreq'] = GetResponse(CacheGet(cache, path))
                   /\ rq' = rq /\ redis' = redis /\ db' = db
                   /\ \A j \in 1..Len(tasks') :
                         tasks'[j].req = nreq' =>
                             tasks'[j].pc = "done" /\ tasks'[j].bg = "none"
              ELSE /\ resp'[nreq'] = Pending
                   /\ Len(rq') = Len(rq) + 1
                   /\ rq'[Len(rq')].op = "get" /\ rq'[Len(rq')].key = path
    /\ \A j \in 1..Len(tasks') :
          (tasks'[j].kind = "get" /\ tasks'[j].pc = "redisGet") =>
              \/ \E i \in 1..Len(tasks) :
                    tasks[i].req = tasks'[j].req /\ tasks[i].pc = "redisGet"
              \/ /\ tasks'[j].req = nreq + 1
                 /\ ~Truthy(CacheGet(cache, tasks'[j].path))
    /\ \A j \in 1..Len(tasks') :
          (tasks'[j].kind = "get" /\ tasks'[j].pc = "query") =>
              \E i \in 1..Len(tasks) :
                  /\ tasks[i].req = tasks'[j].req
                  /\ \/ tasks[i].pc = "query"
                     \/ /\ tasks[i].pc = "redisGet"
                        /\ ~Truthy(RedisGet(redis, tasks[i].path))
    /\ \A j \in 1..Len(tasks') :
          (tasks'[j].kind = "get" /\ tasks'[j].pc = "queried") =>
              \E i \in 1..Len(tasks) :
                  /\ tasks[i].req = tasks'[j].req
                  /\ tasks[i].pc \in {"query", "queried"}

\* C19 as stated: the tier order, and a resolve that hits the local cache
\* changes no cache state.
C19_StrictTierOrder ==
    [][ /\ TierOrder
        /\ \A path \in GetPaths :
              (StartGet(path) /\ Truthy(CacheGet(cache, path))) =>
                  cache' = cache /\ redis' = redis ]_vars

\* C19 amended: the tier order, and a resolve that hits the local cache
\* changes no cache entry: Redis is unchanged and the local cache holds the
\* same keys and values, the entry read having become the most recently
\* used.
C19_TierOrderKeepsEntries ==
    [][ /\ TierOrder
        /\ \A path \in GetPaths :
              (StartGet(path) /\ Truthy(CacheGet(cache, path))) =>
                  /\ redis' = redis
                  /\ Entries(cache') = Entries(cache)
                  /\ Len(cache') = Len(cache)
                  /\ cache'[Len(cache')].k = path ]_vars

\* C19's case: a resolve was answered from the local cache while the cache
\* held another entry too, and resolves were answered from Redis and from
\* the store before.
C19_Witness ==
    \E i \in GetsDone :
        /\ tasks[i].tier = "local" /\ Truthy(tasks[i].location)
        /\ resp[tasks[i].req] = GetResponse(tasks[i].location)
        /\ Len(cache) = 2 /\ cache[2].k = tasks[i].path

\* C20: namespace separation.  From an empty store, every record with a null
\* short_id has a path that holds a '/', and every record with a short_id has
\* a path that holds none; so the path of an explicit-path insert about to be
\* sent equals the path of no short link, and the path of a short-link insert
\* about to be sent equals the path of no explicit-path record.
C20_Namespaces ==
    /\ \A r \in 1..Len(db) :
          IF db[r].short_id = Null THEN HasSlash(db[r].path) ELSE ~HasSlash(db[r].path)
    /\ \A i \in Puts : \A r \in 1..Len(db) :
          /\ (tasks[i].pc = "insert" /\ db[r].short_id # Null) =>
                 ~CollEq(db[r].path, tasks[i].path)
          /\ (tasks[i].pc = "insertShort" /\ db[r].short_id = Null) =>
                 ~CollEq(db[r].path, tasks[i].path)

\* C20's case: the store holds an explicit-path record and the short link of
\* a url whose digest holds a '/', and an insert of either kind is about to
\* be sent.
C20_Witness ==
    /\ \E r \in 1..Len(db) : db[r].short_id = Null
    /\ \E r \in 1..Len(db) : db[r].short_id # Null /\ db[r].origin_url = <<"w">>
    /\ \E i \in Puts : tasks[i].pc \in {"insert", "insertShort"}

====
